---- MODULE Spec2Model ----
(***************************************************************************)
(* A model of rpa_footprints: the batch pipeline generate_footprints of    *)
(* src/rpa_footprints/footprints.py and its caller, the run button of      *)
(* src/plugin_dialog.py.                                                   *)
(*                                                                         *)
(* Python values are tagged tuples, so that a local may hold a number, the *)
(* 'NA' string, None, or nothing at all (an unbound local):                *)
(*   <<"num", n>>   int or float n          <<"NA">>      the string 'NA'  *)
(*   <<"None">>     None                    <<"Unbound">> no binding yet   *)
(*   <<"list", a, b>>  a two-element list   <<"str", s>>  another string   *)
(* EXIF values are strings: <<"numtext", n>> is a numeral float() and      *)
(* int() accept with value n, <<"text", s>> any other string.              *)
(*                                                                         *)
(* Units: heights in metres, angles in degrees, focal length in mm, sensor *)
(* dimensions in tenths of a millimetre (17.3 mm is 173), latitude and     *)
(* longitude in arc seconds, GSD in thousandths of a centimetre.           *)
(***************************************************************************)
EXTENDS Integers, Sequences, FiniteSets, TLC

----------------------------------------------------------------------------
(* Python values *)

Num(n) == <<"num", n>>
NA == <<"NA">>
None == <<"None">>
Unbound == <<"Unbound">>
List2(a, b) == <<"list", a, b>>
Str(s) == <<"str", s>>
NumText(n) == <<"numtext", n>>
Text(s) == <<"text", s>>

IsNum(v) == v[1] = "num"
IsList(v) == v[1] = "list"

\* bool(v) is False: None, 0 and 0.0 (a non-empty string or list is truthy)
Falsy(v) == v = None \/ v = Num(0)

\* The result of an expression that may raise
Ok(v) == [ok |-> TRUE, v |-> v]
Raise(e) == [ok |-> FALSE, e |-> e]

\* d[k] on a mapping: KeyError when the key is absent
Get(d, k) == IF k \in DOMAIN d THEN Ok(d[k]) ELSE Raise("KeyError")

\* float(s) and int(s) on a string
Float(s) == IF s[1] = "numtext" THEN Ok(Num(s[2])) ELSE Raise("ValueError")

\* float(d[k])
FloatOf(d, k) == IF Get(d, k).ok THEN Float(d[k]) ELSE Get(d, k)

Abs(n) == IF n < 0 THEN -n ELSE n

\* round(num/den) for den > 0, halves away from zero
RoundDiv(num, den) ==
    IF num >= 0 THEN (2 * num + den) \div (2 * den)
    ELSE -((2 * (-num) + den) \div (2 * den))

----------------------------------------------------------------------------
(* Module-level tables *)

img_extensions == {"jpg", "jpeg", "tif", "tiff", "iiq"}

sensor_dimensions_list ==
    ("m3e" :> List2(173, 130)) @@ ("ZenmuseP1" :> List2(359, 240))
        @@ ("iXM-GS120" :> List2(0, 0)) @@ ("FC3682" :> List2(97, 73))

\* sensor_dimensions_list[model]
SensorLookup(model) ==
    IF model[1] = "str" /\ model[2] \in DOMAIN sensor_dimensions_list
    THEN Ok(sensor_dimensions_list[model[2]])
    ELSE Raise("KeyError")

----------------------------------------------------------------------------
(* dms_to_decimal, the utm library, get_utc *)

\* A well-formed DMS string is <<"dms", deg, min, sec, hemisphere>>
dms_to_decimal(dms_str) ==
    IF dms_str[1] = "dms"
    THEN LET decimal == dms_str[2] * 3600 + dms_str[3] * 60 + dms_str[4]
         IN  Ok(Num(IF dms_str[5] \in {"S", "W"} THEN -decimal ELSE decimal))
    ELSE Raise("ValueError")

\* utm.from_latlon: latitude in [-80, 84], longitude in [-180, 180), else it raises
utm_from_latlon(lat, lon) ==
    IF ~(IsNum(lat) /\ IsNum(lon)) THEN Raise("TypeError")
    ELSE IF ~(lat[2] >= -80 * 3600 /\ lat[2] <= 84 * 3600
              /\ lon[2] >= -180 * 3600 /\ lon[2] < 180 * 3600)
    THEN Raise("OutOfRangeError")
    ELSE Ok([easting |-> <<"easting", lat[2], lon[2]>>,
             northing |-> <<"northing", lat[2], lon[2]>>,
             zone |-> ((lon[2] + 180 * 3600) \div (6 * 3600)) + 1])

\* datetime.strptime(s, "%Y:%m:%d %H:%M:%S"): <<"datetime", n>> is well formed
strptime_seconds(s) ==
    IF s[1] = "datetime" THEN Ok(<<"dt", s[2]>>) ELSE Raise("ValueError")

\* datetime.strptime(s, "%Y:%m:%d %H:%M:%S.%f"): <<"datetimef", n>> is well formed
strptime_micros(s) ==
    IF s[1] = "datetimef" THEN Ok(<<"dtf", s[2]>>) ELSE Raise("ValueError")

\* str(get_utc(lat, lon, local_time_str, tf))
get_utc(lat, lon, local_time_str) ==
    IF ~(IsNum(lat) /\ IsNum(lon)) THEN Raise("ValueError")
    ELSE IF local_time_str = Unbound THEN Raise("UnboundLocalError")
    ELSE IF ~strptime_seconds(local_time_str).ok THEN Raise("ValueError")
    ELSE Ok(<<"dtstr", <<"utc_of", strptime_seconds(local_time_str).v[2], lat[2], lon[2]>>>>)

----------------------------------------------------------------------------
(* calculate_gsd *)

\* cos(radians(90 + pitch)) as <<numerator, denominator>>; at pitch = 0 the
\* float cosine of 90 degrees is 6.1e-17, not 0: Horizon
Horizon == <<0, 0>>
CosONA(pitch) ==
    CASE pitch = -90 -> <<1, 1>>
      [] pitch = -30 -> <<1, 2>>
      [] pitch = 0   -> Horizon
      [] pitch = 30  -> <<-1, 2>>

PitchAngles == {-90, -30, 0, 30}

GsdLimit == 9999

\* round(100*(distance*sens_dim[0]) / (focal_length*img_dim[0]), 3), in thousandths
GsdRounded(height, pitch, focal_length, sw, iw) ==
    LET c == CosONA(pitch)
        num == 10000 * height * sw * c[2]
        den == c[1] * focal_length * iw
    IN  IF den > 0 THEN RoundDiv(num, den) ELSE RoundDiv(-num, -den)

\* A GSD whose cosine at the horizon is exactly 0
calculate_gsd_zero_cosine(height, pitch, focal_length, sens_dim, img_dim) ==
    IF ~IsNum(pitch) THEN Raise("TypeError")
    ELSE IF ~IsNum(height) THEN Raise("TypeError")
    ELSE IF ~IsList(sens_dim) THEN Raise("TypeError")
    ELSE IF ~IsNum(focal_length) THEN Raise("TypeError")
    ELSE IF focal_length[2] * img_dim[2] = 0 THEN Raise("ZeroDivisionError")
    ELSE IF CosONA(pitch[2]) = Horizon THEN Raise("ZeroDivisionError")
    ELSE LET gsd == GsdRounded(height[2], pitch[2], focal_length[2], sens_dim[2], img_dim[2])
         IN  IF gsd > GsdLimit * 1000 \/ gsd <= 0 THEN Ok(NA) ELSE Ok(Num(gsd))

calculate_gsd(height, pitch, focal_length, sens_dim, img_dim) ==
    IF ~IsNum(pitch) THEN Raise("TypeError")
    ELSE IF ~IsNum(height) THEN Raise("TypeError")
    ELSE IF ~IsList(sens_dim) THEN Raise("TypeError")
    ELSE IF ~IsNum(focal_length) THEN Raise("TypeError")
    ELSE IF focal_length[2] * img_dim[2] = 0 THEN Raise("ZeroDivisionError")
    ELSE IF CosONA(pitch[2]) = Horizon
    THEN \* 0 when height*sens_dim[0] is 0, beyond 1e12 in size otherwise
         Ok(NA)
    ELSE LET gsd == GsdRounded(height[2], pitch[2], focal_length[2], sens_dim[2], img_dim[2])
         IN  IF gsd > GsdLimit * 1000 \/ gsd <= 0 THEN Ok(NA) ELSE Ok(Num(gsd))

----------------------------------------------------------------------------
(* img_footprint_coords *)

\* Ground offsets of the corners: lateral W, forward K
BR == [W |-> "-Wfh", K |-> "Kf"]
\* A bottom-left corner at the back ground distance
BLAtBack == [W |-> "+Wfh", K |-> "Kb"]
BL == [W |-> "+Wfh", K |-> "Kf"]
TR == [W |-> "-Wbh", K |-> "Kb"]
TL == [W |-> "+Wbh", K |-> "Kb"]

img_footprint_coords(lat, lon, height, pitch, yaw, focal_length, sens_dim, img_dim, return_utm) ==
    IF ~utm_from_latlon(lat, lon).ok THEN Raise(utm_from_latlon(lat, lon).e)
    ELSE IF ~IsNum(pitch) THEN Raise("TypeError")
    ELSE IF ~IsNum(yaw) THEN Raise("TypeError")
    ELSE IF ~IsList(sens_dim) THEN Raise("TypeError")
    ELSE IF img_dim[3] = 0 THEN Raise("ZeroDivisionError")
    ELSE IF ~IsNum(focal_length) THEN Raise("TypeError")
    ELSE IF focal_length[2] = 0 THEN Raise("ZeroDivisionError")
    ELSE IF ~IsNum(height) THEN Raise("TypeError")
    ELSE LET coords_x == <<BR, BL, TL, TR>>
             Lat(c) == <<"lat", c.W, c.K>>
             Lon(c) == <<"lon", c.W, c.K>>
             X(c) == <<"x", c.W, c.K>>
             Y(c) == <<"y", c.W, c.K>>
         IN  IF ~return_utm
             THEN Ok(<< <<Lat(coords_x[2]), Lon(coords_x[2])>>,
                        <<Lat(coords_x[3]), Lon(coords_x[3])>>,
                        <<Lat(coords_x[4]), Lon(coords_x[4])>>,
                        <<Lat(coords_x[1]), Lon(coords_x[1])>> >>)
             ELSE Ok(<< <<X(coords_x[2]), Y(coords_x[2])>>,
                        <<X(coords_x[3]), Y(coords_x[3])>>,
                        <<X(coords_x[4]), Y(coords_x[4])>>,
                        <<X(coords_x[1]), Y(coords_x[1])>> >>)

----------------------------------------------------------------------------
(* polygon_area *)

RECURSIVE ShoelaceSum(_, _)
\* area after the iterations i, i+1, ... of the loop (vertices counted from 1,
\* the vertex after the last being the first)
ShoelaceSum(coords, i) ==
    IF i > Len(coords) THEN 0
    ELSE LET x1 == coords[i][1]
             y1 == coords[i][2]
             x2 == coords[(i % Len(coords)) + 1][1]
             y2 == coords[(i % Len(coords)) + 1][2]
         IN  (x1 * y2) - (x2 * y1) + ShoelaceSum(coords, i + 1)

RECURSIVE OpenChainSum(_, _)
\* The same sum without the edge from the last vertex back to the first
OpenChainSum(coords, i) ==
    IF i >= Len(coords) THEN 0
    ELSE (coords[i][1] * coords[i + 1][2]) - (coords[i + 1][1] * coords[i][2])
             + OpenChainSum(coords, i + 1)

\* An area over a ring that is left open
polygon_area_open(coords) == Ok(<<"half", Abs(OpenChainSum(coords, 1))>>)

\* abs(area) / 2, kept as <<"half", abs(area)>>
polygon_area(coords) == Ok(<<"half", Abs(ShoelaceSum(coords, 1))>>)

----------------------------------------------------------------------------
(* Names and paths *)

\* A file or directory name is the sequence of its '.'-separated parts
\* ("img1.jpg" is <<"img1", "jpg">>); a path under the input folder is the
\* sequence of the names on it.

LowerTable ==
    ("JPG" :> "jpg") @@ ("JPEG" :> "jpeg") @@ ("TIF" :> "tif") @@ ("Tiff" :> "tiff")
        @@ ("IIQ" :> "iiq") @@ ("A" :> "a") @@ ("B" :> "b")

\* str.lower() on one part of a name
Lower(part) == IF part \in DOMAIN LowerTable THEN LowerTable[part] ELSE part

\* file.lower().split('.')[-1]
LowerLastPart(name) == Lower(name[Len(name)])

\* name.rsplit('.', 1)[0]
RsplitStem(name) == IF Len(name) = 1 THEN name ELSE SubSeq(name, 1, Len(name) - 1)

\* os.path.basename(input_folder)
RootName == <<"input">>

\* os.path.basename(folder_path)
Basename(dirpath) == IF dirpath = <<>> THEN RootName ELSE dirpath[Len(dirpath)]

\* Names of files in the output folder: base + tail
FootprintTail == "_footprint.geojson"
MergedTail == "_footprints_merged.geojson"
OutName(base, tail) == <<"file", base, tail>>
BaseOf(file) == file[2]
TailOf(file) == file[3]

\* A cleanup test that matches '_footprint' alone, so the merged files too
HasFootprintPrefixTag(file) == TailOf(file) \in {FootprintTail, MergedTail}

\* '_footprint.geojson' in file
HasFootprintTag(file) == TailOf(file) = FootprintTail

----------------------------------------------------------------------------
(* State *)

VARIABLES
    tree,               \* input folder: directory path -> [files, stderr]
    output_folder,      \* output folder when Run is clicked: file name -> FeatureCollection
    ui,                 \* the dialog's fields when Run is clicked
    pc,                 \* where the run is
    messages,           \* message boxes the dialog has shown
    error,              \* the exception that ended the run, if any
    progressBar,        \* progressBar's "value" property
    reported,           \* values generate_footprints has set on progress_bar
    fs,                 \* output folder: file name -> FeatureCollection
    height, pitch, sens_dim, keep_only_merged,   \* generate_footprints' parameters
    folders_list, total, count,
    fi,                 \* position of folder_path in folders_list
    exif_dict,
    ri,                 \* position of exif_dict_single in exif_dict
    footprints_list, geojson_path,
    utm_easting, utm_northing, img_dim, datetime_local, datetime_local_str,
    emitted,            \* history: the Features written, each with the path it was written to
    lib                 \* a direct call of a library function: [fn, args, done, result]

inputs == <<tree, ui, output_folder>>
params == <<height, pitch, sens_dim, keep_only_merged>>
walkv == <<folders_list, total>>
imgloc == <<utm_easting, utm_northing, img_dim, datetime_local, datetime_local_str>>
vars == <<tree, output_folder, lib, ui, pc, messages, error, progressBar, reported, fs,
          height, pitch, sens_dim, keep_only_merged, folders_list, total, count, fi,
          exif_dict, ri, footprints_list, geojson_path,
          utm_easting, utm_northing, img_dim, datetime_local, datetime_local_str,
          emitted>>

----------------------------------------------------------------------------
(* Discovery: the os.walk loop of generate_footprints *)

\* Names a subdirectory may have, in the order os.walk visits them
DirNames == <<<<"a">>, <<"b">>, <<"jpg">>>>

\* os.listdir(dirpath): the files and the subdirectories
Listdir(t, dirpath) ==
    {t[dirpath].files[i].name : i \in DOMAIN t[dirpath].files}
        \cup {n \in {DirNames[j] : j \in DOMAIN DirNames} : Append(dirpath, n) \in DOMAIN t}

\* img_found after the inner loop
ImgFound(t, dirpath) ==
    \E file \in Listdir(t, dirpath) : LowerLastPart(file) \in img_extensions

RECURSIVE WalkFrom(_, _, _)
\* The directories os.walk yields from dirpath on, top-down, children from the j-th name on
WalkFrom(t, dirpath, j) ==
    IF j > Len(DirNames) THEN <<>>
    ELSE LET child == Append(dirpath, DirNames[j])
         IN  (IF child \in DOMAIN t THEN <<child>> \o WalkFrom(t, child, 1) ELSE <<>>)
                 \o WalkFrom(t, dirpath, j + 1)

OsWalk(t) == <<<<>>>> \o WalkFrom(t, <<>>, 1)

RECURSIVE SelectImgFolders(_, _)
SelectImgFolders(t, dirs) ==
    IF dirs = <<>> THEN <<>>
    ELSE (IF ImgFound(t, Head(dirs)) THEN <<Head(dirs)>> ELSE <<>>)
             \o SelectImgFolders(t, Tail(dirs))

\* folders_list after the walk
FoldersList(t) == SelectImgFolders(t, OsWalk(t))

----------------------------------------------------------------------------
(* Per-image metadata: the body of the loop over exif_dict *)

\* rel_path: abspath(file_path).split(abspath(input_folder))[1].split('\\')[1]
RelPath(file_path) == file_path[1]

\* geojson_path: output_folder joined with rel_path.rsplit('.',1)[0] + '_footprint.geojson'
GeojsonPath(file_path) == OutName(RsplitStem(RelPath(file_path)), FootprintTail)

\* model
ResolveModel(exif) == IF Get(exif, "Model").ok THEN exif["Model"] ELSE NA

\* <<lat, lon>>
ResolveLatLon(exif) ==
    IF Get(exif, "GPSLatitude").ok /\ Get(exif, "GPSLongitude").ok
       /\ dms_to_decimal(exif["GPSLatitude"]).ok /\ dms_to_decimal(exif["GPSLongitude"]).ok
    THEN <<dms_to_decimal(exif["GPSLatitude"]).v, dms_to_decimal(exif["GPSLongitude"]).v>>
    ELSE <<NA, NA>>

\* height after "if not height:", from the height the iteration starts with
ResolveHeight(exif, h) ==
    IF Falsy(h)
    THEN IF FloatOf(exif, "RelativeAltitude").ok THEN FloatOf(exif, "RelativeAltitude").v ELSE NA
    ELSE h

\* pitch after "if not pitch:"
ResolvePitch(exif, p) ==
    IF Falsy(p)
    THEN IF FloatOf(exif, "GimbalPitchDegree").ok THEN FloatOf(exif, "GimbalPitchDegree").v ELSE NA
    ELSE p

\* yaw
ResolveYaw(exif) ==
    IF ~Get(exif, "Model").ok THEN NA
    ELSE IF exif["Model"] \in {Str("FC3682")}
    THEN IF FloatOf(exif, "FlightYawDegree").ok THEN FloatOf(exif, "FlightYawDegree").v ELSE NA
    ELSE IF FloatOf(exif, "GimbalYawDegree").ok THEN FloatOf(exif, "GimbalYawDegree").v ELSE NA

\* focal_length: float(exif['FocalLength'].split()[0]); a value <<"tokens", toks>>
\* is a string of whitespace-separated tokens
ResolveFocalLength(exif) ==
    IF Get(exif, "FocalLength").ok /\ exif["FocalLength"][1] = "tokens"
       /\ Len(exif["FocalLength"][2]) > 0 /\ Float(exif["FocalLength"][2][1]).ok
    THEN Float(exif["FocalLength"][2][1]).v
    ELSE NA

\* sens_dim after "if not sens_dim:"
ResolveSensDim(model, sd) ==
    IF Falsy(sd)
    THEN IF SensorLookup(model).ok THEN SensorLookup(model).v ELSE sd
    ELSE sd

\* img_dim: assigned only when both dimensions parse
ResolveImgDim(exif, idim) ==
    IF FloatOf(exif, "ExifImageWidth").ok /\ FloatOf(exif, "ExifImageHeight").ok
    THEN List2(FloatOf(exif, "ExifImageWidth").v[2], FloatOf(exif, "ExifImageHeight").v[2])
    ELSE idim

\* datetime_local: assigned before the parse is tried
ResolveDatetimeLocal(exif, dl) ==
    IF Get(exif, "DateTimeOriginal").ok THEN exif["DateTimeOriginal"] ELSE dl

\* datetime_local_str: assigned only when the parse succeeds (the except
\* branch assigns datetime_local_obj)
ResolveDatetimeLocalStr(exif, dls) ==
    IF Get(exif, "DateTimeOriginal").ok /\ strptime_seconds(exif["DateTimeOriginal"]).ok
    THEN <<"dtstr", strptime_seconds(exif["DateTimeOriginal"]).v>>
    ELSE dls

\* datetime_utc_str, with the datetime_local this iteration leaves
ResolveDatetimeUtcStr(exif, lat, lon, dl) ==
    IF Get(exif, "UTCAtExposure").ok /\ strptime_micros(exif["UTCAtExposure"]).ok
    THEN <<"dtstr", strptime_micros(exif["UTCAtExposure"]).v>>
    ELSE IF get_utc(lat, lon, dl).ok THEN get_utc(lat, lon, dl).v ELSE NA

\* One axis of the speed: the Flight?Speed field, else the Speed? field
AxisSpeed(exif, flight, other) ==
    IF FloatOf(exif, flight).ok THEN FloatOf(exif, flight) ELSE FloatOf(exif, other)

\* speed: round(sqrt(x^2 + y^2 + z^2), 3), kept as the three magnitudes
ResolveSpeed(exif) ==
    LET x == AxisSpeed(exif, "FlightXSpeed", "SpeedX")
        y == AxisSpeed(exif, "FlightYSpeed", "SpeedY")
        z == AxisSpeed(exif, "FlightZSpeed", "SpeedZ")
    IN  IF x.ok /\ y.ok /\ z.ok
        THEN <<"norm", Abs(x.v[2]), Abs(y.v[2]), Abs(z.v[2])>>
        ELSE NA

\* One iteration of the loop over exif_dict, from the locals it starts with:
\* the locals it leaves, and the Feature it writes or the exception it raises
ProcessOne(exif, h, p, sd, ue, un, idim, dl, dls) ==
    LET file_path == exif["SourceFile"]
        model == ResolveModel(exif)
        lat == ResolveLatLon(exif)[1]
        lon == ResolveLatLon(exif)[2]
        utm_details == utm_from_latlon(lat, lon)
        ue2 == IF utm_details.ok THEN utm_details.v.easting ELSE ue
        un2 == IF utm_details.ok THEN utm_details.v.northing ELSE un
        utm_zone == IF utm_details.ok THEN <<"zone", utm_details.v.zone>> ELSE NA
        h2 == ResolveHeight(exif, h)
        p2 == ResolvePitch(exif, p)
        yaw == ResolveYaw(exif)
        focal_length == ResolveFocalLength(exif)
        sd2 == ResolveSensDim(model, sd)
        idim2 == ResolveImgDim(exif, idim)
        dl2 == ResolveDatetimeLocal(exif, dl)
        dls2 == ResolveDatetimeLocalStr(exif, dls)
        datetime_utc_str == ResolveDatetimeUtcStr(exif, lat, lon, dl2)
        speed == ResolveSpeed(exif)
        gsd == IF idim2 = Unbound THEN Raise("UnboundLocalError")
               ELSE calculate_gsd(h2, p2, focal_length, sd2, idim2)
        coords == img_footprint_coords(lat, lon, h2, p2, yaw, focal_length, sd2, idim2, FALSE)
        raised == IF ~gsd.ok THEN gsd.e
                  ELSE IF dls2 = Unbound \/ ue2 = Unbound \/ un2 = Unbound
                  THEN "UnboundLocalError"
                  ELSE IF ~coords.ok THEN coords.e
                  ELSE "none"
        metadata ==
            [FilePath |-> file_path, DatetimeLocal |-> dls2, DatetimeUTC |-> datetime_utc_str,
             Latitude |-> lat, Longitude |-> lon, UTMEasting |-> ue2, UTMNorthing |-> un2,
             UTMZone |-> utm_zone, Sensor |-> model, Height |-> h2, GSD |-> gsd.v,
             Speed |-> speed, Pitch |-> p2, Yaw |-> yaw, FocalLength |-> focal_length,
             SensorDimensions |-> sd2, ImageDimensions |-> idim2]
    IN  [raised |-> raised,
         height |-> h2, pitch |-> p2, sens_dim |-> sd2,
         utm_easting |-> ue2, utm_northing |-> un2, img_dim |-> idim2,
         datetime_local |-> dl2, datetime_local_str |-> dls2,
         geojson_path |-> GeojsonPath(file_path),
         coords |-> IF raised = "none" THEN coords.v ELSE <<>>,
         metadata |-> IF raised = "none" THEN metadata ELSE <<>>]

----------------------------------------------------------------------------
(* Output artifacts *)

\* footprint_coords_to_geojson: the FeatureCollection written to output_path
FootprintGeojson(coords, attributes) ==
    [crs |-> "epsg:4326",
     features |-> << [geometry |-> [i \in DOMAIN coords |-> <<coords[i][2], coords[i][1]>>],
                      properties |-> attributes] >>]

RECURSIVE AllFeatures(_, _)
\* all_features after the loop of merge_geojsons over geojson_list
AllFeatures(files, geojson_list) ==
    IF geojson_list = <<>> THEN <<>>
    ELSE files[Head(geojson_list)].features \o AllFeatures(files, Tail(geojson_list))

\* merge_geojsons: the FeatureCollection written to output_geojson_path
MergedGeojson(files, geojson_list) ==
    [crs |-> "none", features |-> AllFeatures(files, geojson_list)]

\* A file system with one file written
WriteFile(files, name, content) ==
    [n \in DOMAIN files \cup {name} |-> IF n = name THEN content ELSE files[n]]

\* The os.walk/os.remove loop over the output folder
RemoveFootprints(files) ==
    [n \in {m \in DOMAIN files : ~HasFootprintTag(m)} |-> files[n]]

----------------------------------------------------------------------------
(* Inputs: EXIF records, input folders, dialog fields *)

MaxImages == 3      \* images per directory
MaxMissing == 2     \* fields of one record that differ from a complete record

ImgStems == <<"img1", "img2", "img3", "img4", "img5", "img6">>

\* The record exiftool returns for a complete image, the n-th of the input folder
CompleteExif(n) ==
    [Model |-> Str("m3e"),
     GPSLatitude |-> <<"dms", 35, 10, n, "S">>,
     GPSLongitude |-> <<"dms", 149, 5, n, "E">>,
     RelativeAltitude |-> NumText(50 + n),
     GimbalPitchDegree |-> NumText(IF n % 2 = 1 THEN -90 ELSE -30),
     GimbalYawDegree |-> NumText(10 * n),
     FlightYawDegree |-> NumText(10 * n + 5),
     FocalLength |-> <<"tokens", <<NumText(24), Text("mm")>>>>,
     ExifImageWidth |-> NumText(4000 + n),
     ExifImageHeight |-> NumText(3000 + n),
     DateTimeOriginal |-> <<"datetime", n>>,
     UTCAtExposure |-> <<"datetimef", n>>,
     FlightXSpeed |-> NumText(n),
     FlightYSpeed |-> NumText(-n),
     FlightZSpeed |-> NumText(0)]

\* Ways one record differs from the complete one
Kinds == {"no_model", "unknown_model", "fc3682", "no_position", "bad_position",
          "no_height", "zero_height", "no_pitch", "zero_pitch", "no_yaw",
          "no_focal", "no_imgdim", "no_datetime", "no_utc", "no_speed"}

Dropped(kinds) ==
    (IF "no_model" \in kinds THEN {"Model"} ELSE {})
    \cup (IF "no_position" \in kinds THEN {"GPSLatitude"} ELSE {})
    \cup (IF "no_height" \in kinds THEN {"RelativeAltitude"} ELSE {})
    \cup (IF "no_pitch" \in kinds THEN {"GimbalPitchDegree"} ELSE {})
    \cup (IF "no_yaw" \in kinds THEN {"GimbalYawDegree"} ELSE {})
    \cup (IF "no_focal" \in kinds THEN {"FocalLength"} ELSE {})
    \cup (IF "no_imgdim" \in kinds THEN {"ExifImageWidth"} ELSE {})
    \cup (IF "no_datetime" \in kinds THEN {"DateTimeOriginal"} ELSE {})
    \cup (IF "no_utc" \in kinds THEN {"UTCAtExposure"} ELSE {})
    \cup (IF "no_speed" \in kinds THEN {"FlightXSpeed"} ELSE {})

Changed(kinds, k, v) ==
    CASE k = "Model" /\ "unknown_model" \in kinds -> Str("X100")
      [] k = "Model" /\ "fc3682" \in kinds -> Str("FC3682")
      [] k = "GPSLongitude" /\ "bad_position" \in kinds -> Text("149.08")
      [] k = "RelativeAltitude" /\ "zero_height" \in kinds -> NumText(0)
      [] k = "GimbalPitchDegree" /\ "zero_pitch" \in kinds -> NumText(0)
      [] OTHER -> v

\* The n-th image's record, differing from the complete one in `kinds`
ExifOf(n, kinds) ==
    [k \in DOMAIN CompleteExif(n) \ Dropped(kinds) |-> Changed(kinds, k, CompleteExif(n)[k])]

\* Directories of the input folder, in a fixed numbering
DirPaths == << <<>>, <<<<"a">>>>, <<<<"b">>>>, <<<<"a">>, <<"b">>>> >>

\* A directory holding `cnt` image files, numbered from `first`; `dev` gives
\* the records that are not complete (image number -> kinds)
ImageDir(first, cnt, dev, ext) ==
    [files |-> [i \in 1..cnt |->
                   [name |-> <<ImgStems[i], ext>>,
                    exif |-> <<ExifOf(first + i, IF first + i \in DOMAIN dev THEN dev[first + i] ELSE {})>>]],
     stderr |-> ""]

NoDev == [n \in {} |-> {}]

\* The input folder with counts[j] images in DirPaths[j], for the j of counts
InputFolder(counts, dev) ==
    [d \in {DirPaths[j] : j \in DOMAIN counts} |->
        LET j == CHOOSE j \in DOMAIN counts : DirPaths[j] = d
        IN  ImageDir((j - 1) * (MaxImages + 1), counts[j], dev, "jpg")]

\* The dialog's fields; a line edit holds Text("") or a numeral
Ui(heightLine, gimbalPitchLine, sensorWidthLine, sensorHeightLine, checkbox_merge) ==
    [inputFolderLine |-> Text("C:/in"), outputFolderLine |-> Text("C:/out"),
     heightLine |-> heightLine, gimbalPitchLine |-> gimbalPitchLine,
     sensorWidthLine |-> sensorWidthLine, sensorHeightLine |-> sensorHeightLine,
     checkbox_merge |-> checkbox_merge]

PlainUi(checkbox_merge) == Ui(Text(""), Text(""), Text(""), Text(""), checkbox_merge)

----------------------------------------------------------------------------
(* The run *)

\* No library call is in progress
LibIdle == [fn |-> "none", args |-> <<>>, done |-> FALSE, result |-> <<>>]

\* The dialog is open and Run has not been clicked, the output folder
\* holding `files`
DialogOpen(t, u, files) ==
    /\ tree = t
    /\ ui = u
    /\ output_folder = files
    /\ pc = "idle"
    /\ messages = <<>>
    /\ error = "none"
    /\ progressBar = Num(0)
    /\ reported = <<>>
    /\ fs = files
    /\ height = Unbound /\ pitch = Unbound /\ sens_dim = Unbound
    /\ keep_only_merged = FALSE
    /\ folders_list = <<>> /\ total = 0 /\ count = 0 /\ fi = 0
    /\ exif_dict = <<>> /\ ri = 0
    /\ footprints_list = <<>> /\ geojson_path = Unbound
    /\ utm_easting = Unbound /\ utm_northing = Unbound /\ img_dim = Unbound
    /\ datetime_local = Unbound /\ datetime_local_str = Unbound
    /\ emitted = <<>>

\* The same, no library call being made beside the run
StartOver(t, u, files) == DialogOpen(t, u, files) /\ lib = LibIdle

EmptyFolder == [n \in {} |-> <<>>]

\* The same with an empty output folder
Start(t, u) == StartOver(t, u, EmptyFolder)

\* "text or None", then float(text) when the text is not empty
LineValue(line) == IF line = Text("") THEN None ELSE Float(line).v

\* sens_dim as MyPluginDialog.generate_footprints builds it
UiSensDim(u) ==
    IF u.sensorWidthLine # Text("") /\ u.sensorHeightLine # Text("")
    THEN List2(Float(u.sensorWidthLine).v[2], Float(u.sensorHeightLine).v[2])
    ELSE None

\* A pitch test that lets 0 pass and stops -90
PitchRejectedAtNadir(p) == p > 0 \/ p <= -90

\* The pitch test of MyPluginDialog.generate_footprints
PitchRejected(p) == p >= 0 \/ p < -90

FoldersMissing(u) == u.inputFolderLine = Text("") \/ u.outputFolderLine = Text("")

\* MyPluginDialog.generate_footprints: a required folder is missing
RunMissingFields ==
    /\ pc = "idle"
    /\ FoldersMissing(ui)
    /\ progressBar' = Num(0)
    /\ messages' = Append(messages, "Missing Required Fields")
    /\ pc' = "dismissed"
    /\ UNCHANGED <<inputs, lib, error, reported, fs, params, walkv, count, fi, exif_dict, ri,
                   footprints_list, geojson_path, imgloc, emitted>>

\* MyPluginDialog.generate_footprints: the pitch is rejected
RunInvalidPitch ==
    /\ pc = "idle"
    /\ ~FoldersMissing(ui)
    /\ LineValue(ui.gimbalPitchLine) # None
    /\ PitchRejected(LineValue(ui.gimbalPitchLine)[2])
    /\ progressBar' = Num(0)
    /\ messages' = Append(messages, "Invalid parameter")
    /\ pc' = "raised"
    /\ error' = "ValueError"
    /\ UNCHANGED <<inputs, lib, reported, fs, params, walkv, count, fi, exif_dict, ri,
                   footprints_list, geojson_path, imgloc, emitted>>

\* MyPluginDialog.generate_footprints: footprints.generate_footprints is called
RunCall ==
    /\ pc = "idle"
    /\ ~FoldersMissing(ui)
    /\ LineValue(ui.gimbalPitchLine) # None => ~PitchRejected(LineValue(ui.gimbalPitchLine)[2])
    /\ progressBar' = Num(0)
    /\ height' = LineValue(ui.heightLine)
    /\ pitch' = LineValue(ui.gimbalPitchLine)
    /\ sens_dim' = UiSensDim(ui)
    /\ keep_only_merged' = ui.checkbox_merge
    /\ pc' = "walk"
    /\ UNCHANGED <<inputs, lib, messages, error, reported, fs, walkv, count, fi, exif_dict, ri,
                   footprints_list, geojson_path, imgloc, emitted>>

\* generate_footprints: the walk that builds folders_list
Walk ==
    /\ pc = "walk"
    /\ folders_list' = FoldersList(tree)
    /\ total' = Len(FoldersList(tree))
    /\ count' = 0
    /\ fi' = 1
    /\ pc' = "folder"
    /\ UNCHANGED <<inputs, lib, messages, error, progressBar, reported, fs, params, exif_dict, ri,
                   footprints_list, geojson_path, imgloc, emitted>>

\* The rows create_exif_dict reads: files[i].exif holds the record exiftool
\* returned for the i-th file, or nothing
RECURSIVE ExifRows(_, _, _)
ExifRows(folder_path, files, i) ==
    IF i > Len(files) THEN <<>>
    ELSE [r \in DOMAIN files[i].exif |->
             [k \in DOMAIN files[i].exif[r] \cup {"SourceFile"} |->
                 IF k = "SourceFile" THEN Append(folder_path, files[i].name)
                 ELSE files[i].exif[r][k]]]
             \o ExifRows(folder_path, files, i + 1)

NoMatchingFiles == "No matching files\n"

\* extract_exif_csv, create_exif_dict: the next folder's records
ExtractExif ==
    /\ pc = "folder"
    /\ fi <= Len(folders_list)
    /\ tree[folders_list[fi]].stderr # NoMatchingFiles
    /\ exif_dict' = ExifRows(folders_list[fi], tree[folders_list[fi]].files, 1)
    /\ footprints_list' = <<>>
    /\ ri' = 1
    /\ pc' = "image"
    /\ UNCHANGED <<inputs, lib, messages, error, progressBar, reported, fs, params, walkv, count, fi,
                   geojson_path, imgloc, emitted>>

\* extract_exif_csv raises
ExtractExifRaises ==
    /\ pc = "folder"
    /\ fi <= Len(folders_list)
    /\ tree[folders_list[fi]].stderr = NoMatchingFiles
    /\ pc' = "raised"
    /\ error' = "ValueError"
    /\ UNCHANGED <<inputs, lib, messages, progressBar, reported, fs, params, walkv, count, fi,
                   exif_dict, ri, footprints_list, geojson_path, imgloc, emitted>>

\* What the next iteration of the loop over exif_dict does
ThisImage ==
    ProcessOne(exif_dict[ri], height, pitch, sens_dim, utm_easting, utm_northing,
               img_dim, datetime_local, datetime_local_str)

\* One iteration of the loop over exif_dict: a Feature is written
ProcessImage ==
    /\ pc = "image"
    /\ ri <= Len(exif_dict)
    /\ ThisImage.raised = "none"
    /\ height' = ThisImage.height
    /\ pitch' = ThisImage.pitch
    /\ sens_dim' = ThisImage.sens_dim
    /\ utm_easting' = ThisImage.utm_easting
    /\ utm_northing' = ThisImage.utm_northing
    /\ img_dim' = ThisImage.img_dim
    /\ datetime_local' = ThisImage.datetime_local
    /\ datetime_local_str' = ThisImage.datetime_local_str
    /\ geojson_path' = ThisImage.geojson_path
    /\ fs' = WriteFile(fs, ThisImage.geojson_path,
                       FootprintGeojson(ThisImage.coords, ThisImage.metadata))
    /\ footprints_list' = Append(footprints_list, ThisImage.geojson_path)
    /\ emitted' = Append(emitted, [artifact |-> ThisImage.geojson_path,
                                    geometry |-> FootprintGeojson(ThisImage.coords, ThisImage.metadata).features[1].geometry,
                                    properties |-> ThisImage.metadata])
    /\ ri' = ri + 1
    /\ UNCHANGED <<inputs, lib, pc, messages, error, progressBar, reported, keep_only_merged,
                   walkv, count, fi, exif_dict>>

\* One iteration of the loop over exif_dict: an exception leaves generate_footprints
ProcessImageRaises ==
    /\ pc = "image"
    /\ ri <= Len(exif_dict)
    /\ ThisImage.raised # "none"
    /\ pc' = "raised"
    /\ error' = ThisImage.raised
    /\ UNCHANGED <<inputs, lib, messages, progressBar, reported, fs, params, walkv, count, fi,
                   exif_dict, ri, footprints_list, geojson_path, imgloc, emitted>>

\* output_merged_geojson
MergedPath(folder_path) == OutName(Basename(folder_path), MergedTail)

\* The "if keep_only_merged:" statement after the loop over exif_dict
MergeShoot ==
    /\ pc = "image"
    /\ ri > Len(exif_dict)
    /\ keep_only_merged => geojson_path # Unbound
    /\ fs' = IF keep_only_merged
             THEN RemoveFootprints(
                      WriteFile(fs, MergedPath(folders_list[fi]),
                                MergedGeojson(fs, footprints_list)))
             ELSE fs
    /\ pc' = "progress"
    /\ UNCHANGED <<inputs, lib, messages, error, progressBar, reported, params, walkv, count, fi,
                   exif_dict, ri, footprints_list, geojson_path, imgloc, emitted>>

\* The same statement when no image has been written yet: geojson_path is unbound
MergeShootRaises ==
    /\ pc = "image"
    /\ ri > Len(exif_dict)
    /\ keep_only_merged
    /\ geojson_path = Unbound
    /\ pc' = "raised"
    /\ error' = "UnboundLocalError"
    /\ UNCHANGED <<inputs, lib, messages, progressBar, reported, fs, params, walkv, count, fi,
                   exif_dict, ri, footprints_list, geojson_path, imgloc, emitted>>

\* count / total: a fraction of 1 in place of a percentage
FractionOfOne(c, t) == <<"frac", c, t>>

\* 100 * count / total, kept as the fraction <<numerator, denominator>>
Percent(c, t) == <<"frac", 100 * c, t>>

\* count += 1 and the progress bar update that end a folder's iteration
UpdateProgress ==
    /\ pc = "progress"
    /\ count' = count + 1
    /\ progressBar' = Percent(count + 1, total)
    /\ reported' = Append(reported, Percent(count + 1, total))
    /\ fi' = fi + 1
    /\ pc' = "folder"
    /\ UNCHANGED <<inputs, lib, messages, error, fs, params, walkv, exif_dict, ri,
                   footprints_list, geojson_path, imgloc, emitted>>

\* generate_footprints returns and the dialog announces the result
Return ==
    /\ pc = "folder"
    /\ fi > Len(folders_list)
    /\ messages' = Append(messages, "Footprints generated")
    /\ pc' = "done"
    /\ UNCHANGED <<inputs, lib, error, progressBar, reported, fs, params, walkv, count, fi,
                   exif_dict, ri, footprints_list, geojson_path, imgloc, emitted>>

Next ==
    \/ RunMissingFields
    \/ RunInvalidPitch
    \/ RunCall
    \/ Walk
    \/ ExtractExif
    \/ ExtractExifRaises
    \/ ProcessImage
    \/ ProcessImageRaises
    \/ MergeShoot
    \/ MergeShootRaises
    \/ UpdateProgress
    \/ Return

----------------------------------------------------------------------------
(* Specifications: the runs explored *)

Scenario(t, u) == [tree |-> t, ui |-> u]

ImageNumbers(counts) ==
    {(j - 1) * (MaxImages + 1) + i : j \in DOMAIN counts, i \in 1..MaxImages} \cap
    UNION {{(j - 1) * (MaxImages + 1) + i : i \in 1..counts[j]} : j \in DOMAIN counts}

\* Runs that stop early: a missing folder, a rejected pitch, an extractor
\* error, a record without yaw, a first folder without records
StoppedRuns ==
    {Scenario(InputFolder(<<1>>, NoDev),
              [PlainUi(TRUE) EXCEPT !.outputFolderLine = Text("")]),
     Scenario(InputFolder(<<1>>, NoDev),
              Ui(Text(""), NumText(-100), Text(""), Text(""), TRUE)),
     Scenario([d \in {<<>>} |-> [InputFolder(<<1>>, NoDev)[d] EXCEPT !.stderr = NoMatchingFiles]],
              PlainUi(TRUE)),
     Scenario(InputFolder(<<1>>, 1 :> {"no_yaw"}), PlainUi(TRUE)),
     Scenario([d \in {<<>>} |-> [files |-> <<[name |-> <<"img1", "jpg">>, exif |-> <<>>]>>,
                                 stderr |-> ""]],
              PlainUi(TRUE))}

\* Input folders of complete images: up to MaxImages in each of the root, a, b and a/b
CompleteRuns ==
    {Scenario(InputFolder(counts, NoDev), PlainUi(keep)) :
        counts \in UNION {[1..k -> 0..MaxImages] : k \in 1..4}, keep \in BOOLEAN}

\* Input folders of at most MaxImages images in the root and in a, one of
\* them with a record that is not complete
SmallCounts ==
    {c \in [1..1 -> 1..MaxImages] \cup [1..2 -> 0..MaxImages] :
        c[1] + (IF Len(c) = 2 THEN c[2] ELSE 0) \in 1..MaxImages}

KindSets == {D \in SUBSET Kinds : Cardinality(D) \in 1..MaxMissing}

IncompleteRuns ==
    {Scenario(InputFolder(sc[1], sc[2] :> D), PlainUi(TRUE)) :
        sc \in {x \in SmallCounts \X (1..(2 * (MaxImages + 1))) : x[2] \in ImageNumbers(x[1])},
        D \in KindSets}

\* Runs with overrides typed into the dialog
LineTexts == {Text(""), NumText(0), NumText(30)}
PitchTexts == {Text(""), NumText(-30), NumText(-90), NumText(0), NumText(30)}
OverrideKinds == {{}, {"no_height"}, {"no_pitch"}, {"zero_height"}, {"unknown_model"}}

OverrideRuns ==
    {Scenario(InputFolder(c, n :> D), Ui(h, p, sw, sh, keep)) :
        c \in {<<2>>, <<1, 1>>}, n \in {1, 2}, D \in OverrideKinds,
        h \in LineTexts, p \in PitchTexts,
        sw \in {Text(""), NumText(359)}, sh \in {Text(""), NumText(240)},
        keep \in {TRUE}}

\* A directory whose one image file the extractor returns no record for
UnreadableDir == [files |-> <<[name |-> <<"img1", "jpg">>, exif |-> <<>>]>>, stderr |-> ""]

\* Input folders of at most one complete image per directory, one directory
\* of which yields no record
UnreadableRuns ==
    {Scenario([InputFolder(counts, NoDev) EXCEPT ![DirPaths[j]] = UnreadableDir], PlainUi(keep)) :
        counts \in [1..4 -> 0..1], j \in 1..4, keep \in BOOLEAN}

\* File names with and without an image extension
OddNames == {<<"jpg">>, <<"notes", "txt">>, <<"IMG", "JPG">>, <<"img1", "Tiff">>,
             <<"scan", "jpg", "bak">>, <<"img1", "png">>}

\* A directory holding one file of that name; the extractor returns a record
\* for it when its extension is an image extension
OddDir(name, n) ==
    [files |-> <<[name |-> name,
                  exif |-> IF Len(name) >= 2 /\ LowerLastPart(name) \in img_extensions
                           THEN <<ExifOf(n, {})>> ELSE <<>>]>>,
     stderr |-> ""]

\* Input folders with such files in the root and in a, and input folders
\* whose root holds such a file and a subdirectory named jpg
OddNameRuns ==
    {Scenario((<<>> :> OddDir(n1, 1)) @@ (<<<<"a">>>> :> OddDir(n2, 2)), PlainUi(keep)) :
        n1 \in OddNames, n2 \in OddNames, keep \in BOOLEAN}
    \cup {Scenario((<<>> :> OddDir(n1, 1)) @@ (<<<<"jpg">>>> :> OddDir(n2, 2)), PlainUi(keep)) :
        n1 \in OddNames, n2 \in OddNames, keep \in BOOLEAN}

\* Runs over input folders of complete images
Init ==
    \E sc \in StoppedRuns \cup CompleteRuns \cup UnreadableRuns \cup OddNameRuns :
        Start(sc.tree, sc.ui)

Spec == Init /\ [][Next]_vars

\* Files an earlier run has left in the output folder: a per-image file, a
\* merged file, and a file of another kind
OldFiles ==
    (OutName(<<"old">>, FootprintTail) :>
        FootprintGeojson(<< <<<<"lat", "+Wfh", "Kf">>, <<"lon", "+Wfh", "Kf">>>> >>,
                         [FilePath |-> <<<<"old", "jpg">>>>]))
    @@ (OutName(<<"old">>, MergedTail) :>
        MergedGeojson(OutName(<<"old">>, FootprintTail) :>
                          FootprintGeojson(<< <<<<"lat", "+Wfh", "Kf">>, <<"lon", "+Wfh", "Kf">>>> >>,
                                           [FilePath |-> <<<<"old", "jpg">>>>]),
                      <<OutName(<<"old">>, FootprintTail)>>))
    @@ (OutName(<<"readme">>, ".txt") :> [crs |-> "none", features |-> <<>>])

\* Runs over input folders of up to 2 complete images in the root and in a,
\* into an output folder that holds some of the old files
RerunRuns ==
    {[tree |-> InputFolder(counts, NoDev), ui |-> PlainUi(keep),
      out |-> [f \in F |-> OldFiles[f]]] :
        counts \in [1..2 -> 0..2], keep \in BOOLEAN, F \in SUBSET DOMAIN OldFiles}

\* Runs into an output folder that is not empty
InitRerun ==
    \/ \E sc \in StoppedRuns : Start(sc.tree, sc.ui)
    \/ \E sc \in RerunRuns : StartOver(sc.tree, sc.ui, sc.out)

SpecRerun == InitRerun /\ [][Next]_vars

\* Runs over records that are not complete, and runs with overrides
InitFields == \E sc \in StoppedRuns \cup IncompleteRuns \cup OverrideRuns : Start(sc.tree, sc.ui)

SpecFields == InitFields /\ [][Next]_vars

----------------------------------------------------------------------------
(* Direct calls of the library: polygon_area, calculate_gsd,                *)
(* img_footprint_coords and merge_geojsons applied to given arguments, as   *)
(* update_footprint_plot and a script importing rpa_footprints do           *)

MaxVertices == 4    \* vertices of a list given to polygon_area
MaxCoord == 1       \* vertex coordinates are 0..MaxCoord

Points == (0..MaxCoord) \X (0..MaxCoord)
VertexLists == UNION {[1..n -> Points] : n \in 0..MaxVertices}

\* Arguments of calculate_gsd: flights at usual heights with the listed
\* sensors, and heights around the one whose GSD is 9999 cm
GsdArgs ==
    {[height |-> Num(h), pitch |-> Num(p), focal_length |-> Num(f),
      sens_dim |-> sd, img_dim |-> idim] :
        h \in {-1, 0, 1, 50}, p \in PitchAngles, f \in {0, 24},
        sd \in {List2(173, 130), List2(1, 1), List2(0, 0)},
        idim \in {List2(4000, 3000), List2(0, 0)}}
    \cup
    {[height |-> Num(h), pitch |-> Num(p), focal_length |-> Num(10),
      sens_dim |-> List2(1, 1), img_dim |-> List2(1, 1)] :
        h \in {9998, 9999, 10000}, p \in PitchAngles}

\* Arguments of img_footprint_coords
CoordArgs ==
    {[lat |-> Num(-35 * 3600), lon |-> Num(149 * 3600), height |-> Num(h), pitch |-> Num(p),
      yaw |-> Num(y), focal_length |-> Num(24), sens_dim |-> List2(173, 130),
      img_dim |-> List2(4000, 3000), return_utm |-> r] :
        h \in {1, 50}, p \in {-90, -30, 0}, y \in {0, 90, 180}, r \in BOOLEAN}

\* The footprint of an image, and two other vertex lists
GeoFootprint ==
    img_footprint_coords(Num(-35 * 3600), Num(149 * 3600), Num(50), Num(-90), Num(0), Num(24),
                         List2(173, 130), List2(4000, 3000), FALSE).v

FootprintFiles ==
    (1 :> FootprintGeojson(GeoFootprint, [FilePath |-> 1]))
    @@ (2 :> FootprintGeojson(<<GeoFootprint[4], GeoFootprint[3], GeoFootprint[2], GeoFootprint[1]>>,
                              [FilePath |-> 2]))
    @@ (3 :> FootprintGeojson(<<GeoFootprint[2], GeoFootprint[3], GeoFootprint[4], GeoFootprint[1]>>,
                              [FilePath |-> 3]))

\* Arguments of merge_geojsons: the files and the list of their paths
MergeArgs ==
    {[files |-> FootprintFiles, geojson_list |-> l] :
        l \in UNION {[1..n -> DOMAIN FootprintFiles] : n \in 0..3}}

LibCalls ==
    {[fn |-> "polygon_area", args |-> a, done |-> FALSE, result |-> <<>>] : a \in VertexLists}
    \cup {[fn |-> "calculate_gsd", args |-> a, done |-> FALSE, result |-> <<>>] : a \in GsdArgs}
    \cup {[fn |-> "img_footprint_coords", args |-> a, done |-> FALSE, result |-> <<>>] : a \in CoordArgs}
    \cup {[fn |-> "merge_geojsons", args |-> a, done |-> FALSE, result |-> <<>>] : a \in MergeArgs}

MaxShift == 1       \* a translation moves each coordinate by -MaxShift..MaxShift

\* The variables of the run
run == <<inputs, pc, messages, error, progressBar, reported, fs, params, walkv, count, fi,
         exif_dict, ri, footprints_list, geojson_path, imgloc, emitted>>

ApplyPolygonArea ==
    /\ lib.fn = "polygon_area" /\ ~lib.done
    /\ lib' = [lib EXCEPT !.done = TRUE, !.result = polygon_area(lib.args)]
    /\ UNCHANGED run

ApplyCalculateGsd ==
    /\ lib.fn = "calculate_gsd" /\ ~lib.done
    /\ lib' = [lib EXCEPT !.done = TRUE,
                          !.result = calculate_gsd(lib.args.height, lib.args.pitch,
                                                   lib.args.focal_length, lib.args.sens_dim,
                                                   lib.args.img_dim)]
    /\ UNCHANGED run

ApplyImgFootprintCoords ==
    /\ lib.fn = "img_footprint_coords" /\ ~lib.done
    /\ lib' = [lib EXCEPT !.done = TRUE,
                          !.result = img_footprint_coords(lib.args.lat, lib.args.lon,
                                         lib.args.height, lib.args.pitch, lib.args.yaw,
                                         lib.args.focal_length, lib.args.sens_dim,
                                         lib.args.img_dim, lib.args.return_utm)]
    /\ UNCHANGED run

ApplyMergeGeojsons ==
    /\ lib.fn = "merge_geojsons" /\ ~lib.done
    /\ lib' = [lib EXCEPT !.done = TRUE,
                          !.result = Ok(MergedGeojson(lib.args.files, lib.args.geojson_list))]
    /\ UNCHANGED run

NextLib ==
    \/ ApplyPolygonArea
    \/ ApplyCalculateGsd
    \/ ApplyImgFootprintCoords
    \/ ApplyMergeGeojsons

InitLib ==
    /\ DialogOpen(InputFolder(<<1>>, NoDev), PlainUi(TRUE), EmptyFolder)
    /\ lib \in LibCalls

SpecLib == InitLib /\ [][NextLib]_vars

----------------------------------------------------------------------------
(* Vocabulary of the properties *)

\* The directory an image lies in
ShootOf(file_path) == SubSeq(file_path, 1, Len(file_path) - 1)

\* The number of records the extractor returns for a directory
Records(d) == Cardinality({i \in DOMAIN tree[d].files : tree[d].files[i].exif # <<>>})

\* The position of a shoot in the order of processing
ShootNo(d) == CHOOSE j \in DOMAIN folders_list : folders_list[j] = d

\* The Features emitted for the images of a directory
EmittedOf(d) == {i \in DOMAIN emitted : ShootOf(emitted[i].properties.FilePath) = d}

\* The files of the output folder, by kind
PerImageFiles == {f \in DOMAIN fs : TailOf(f) = FootprintTail}
MergedFiles == {f \in DOMAIN fs : TailOf(f) = MergedTail}
MergedFilesOf(d) == {f \in MergedFiles : BaseOf(f) = Basename(d)}

\* No other shoot of the run has the folder name of d
NameUnique(d) ==
    \A j \in DOMAIN folders_list : Basename(folders_list[j]) = Basename(d) => folders_list[j] = d

----------------------------------------------------------------------------
(* C1: with N shoot directories, the k-th value the progress sink receives  *)
(* is 100*k/N; it is reported once shoot k's images are all written and its *)
(* merge and cleanup are done, and before any image of shoot k+1 is         *)
(* processed; the values never decrease, lie in [0,100], and a run that     *)
(* returns has reported N values, the last one 100.                         *)
C1_ProgressPerShoot ==
    /\ Len(reported) <= Len(folders_list)
    /\ \A k \in DOMAIN reported :
          /\ reported[k][3] > 0
          /\ reported[k][2] * Len(folders_list) = 100 * k * reported[k][3]
          /\ reported[k][2] >= 0 /\ reported[k][2] <= 100 * reported[k][3]
          /\ k > 1 => reported[k - 1][2] * reported[k][3] <= reported[k][2] * reported[k - 1][3]
          /\ Cardinality(EmittedOf(folders_list[k])) = Records(folders_list[k])
          /\ keep_only_merged => MergedFilesOf(folders_list[k]) # {}
    /\ \A i \in DOMAIN emitted :
          ShootNo(ShootOf(emitted[i].properties.FilePath)) <= Len(reported) + 1
    /\ (pc = "folder" /\ keep_only_merged) => PerImageFiles = {}
    /\ pc = "done" => Len(reported) = Len(folders_list)
    /\ (pc = "done" /\ reported # <<>>) =>
          reported[Len(reported)][2] = 100 * reported[Len(reported)][3]

\* Two shoots have reported 50, then 100
C1_Witness ==
    /\ pc = "done"
    /\ Len(folders_list) = 2
    /\ reported = << <<"frac", 100, 2>>, <<"frac", 200, 2>> >>

----------------------------------------------------------------------------
(* C2: with keep_only_merged, once a shoot of n >= 1 images is merged, and  *)
(* when the run has returned, the output folder holds exactly one merged    *)
(* file named after the shoot, it holds exactly n Features (as long as no   *)
(* other shoot of the run writes to the same name), and no per-image file   *)
(* is left.                                                                 *)
C2_OnlyMergedLeft ==
    keep_only_merged =>
        /\ (pc = "progress" /\ Records(folders_list[fi]) >= 1) =>
              /\ PerImageFiles = {}
              /\ Cardinality(MergedFilesOf(folders_list[fi])) = 1
              /\ \A f \in MergedFilesOf(folders_list[fi]) :
                    Len(fs[f].features) = Records(folders_list[fi])
        /\ pc = "done" =>
              /\ PerImageFiles = {}
              /\ \A j \in DOMAIN folders_list :
                    Records(folders_list[j]) >= 1 =>
                        /\ Cardinality(MergedFilesOf(folders_list[j])) = 1
                        /\ NameUnique(folders_list[j]) =>
                              \A f \in MergedFilesOf(folders_list[j]) :
                                  Len(fs[f].features) = Records(folders_list[j])

\* A shoot of three images has left one merged file of three Features
C2_Witness ==
    /\ pc = "done"
    /\ keep_only_merged
    /\ PerImageFiles = {}
    /\ \E j \in DOMAIN folders_list :
          /\ Records(folders_list[j]) = 3
          /\ \E f \in MergedFilesOf(folders_list[j]) : Len(fs[f].features) = 3

----------------------------------------------------------------------------
(* C3: every shoot with at least one image gets a merged file, whatever     *)
(* keep_only_merged is; with keep_only_merged false the per-image files are *)
(* there as well when the run has returned.                                 *)
C3_MergedWhateverTheFlag ==
    pc = "done" =>
        \A j \in DOMAIN folders_list :
            Records(folders_list[j]) >= 1 =>
                /\ MergedFilesOf(folders_list[j]) # {}
                /\ ~keep_only_merged =>
                      \A i \in EmittedOf(folders_list[j]) : emitted[i].artifact \in DOMAIN fs

----------------------------------------------------------------------------
(* C4: no two images of a run are written to the same per-image file, and   *)
(* the merged file of a shoot holds the Feature of each of its images       *)
(* exactly once.                                                            *)
C4_OneFilePerImage ==
    /\ \A i, j \in DOMAIN emitted : i # j => emitted[i].artifact # emitted[j].artifact
    /\ (pc = "progress" /\ keep_only_merged) =>
          \A f \in MergedFilesOf(folders_list[fi]) :
              \A i \in EmittedOf(folders_list[fi]) :
                  Cardinality({x \in DOMAIN fs[f].features :
                      fs[f].features[x].properties.FilePath = emitted[i].properties.FilePath}) = 1

----------------------------------------------------------------------------
(* Records as the claims speak of them *)

\* The record of an image, as the extractor returns it
RecordOf(file_path) ==
    LET files == tree[ShootOf(file_path)].files
        i == CHOOSE i \in DOMAIN files : files[i].name = file_path[Len(file_path)]
    IN  files[i].exif[1]

\* A record without its SourceFile column
Fields(rec) == [k \in DOMAIN rec \ {"SourceFile"} |-> rec[k]]

\* The record is complete but for GimbalPitchDegree
OnlyPitchMissing(rec) == \E n \in 1..(4 * (MaxImages + 1)) : Fields(rec) = ExifOf(n, {"no_pitch"})

HasNumber(rec, k) == k \in DOMAIN rec /\ rec[k][1] = "numtext"
HasPosition(rec) ==
    /\ "GPSLatitude" \in DOMAIN rec /\ rec["GPSLatitude"][1] = "dms"
    /\ "GPSLongitude" \in DOMAIN rec /\ rec["GPSLongitude"][1] = "dms"
HasLocalTime(rec) == "DateTimeOriginal" \in DOMAIN rec /\ rec["DateTimeOriginal"][1] = "datetime"
HasUtcTime(rec) == "UTCAtExposure" \in DOMAIN rec /\ rec["UTCAtExposure"][1] = "datetimef"
HasYaw(rec) ==
    IF "Model" \in DOMAIN rec /\ rec["Model"] = Str("FC3682")
    THEN HasNumber(rec, "FlightYawDegree") ELSE HasNumber(rec, "GimbalYawDegree")
HasFocalLength(rec) == "FocalLength" \in DOMAIN rec /\ rec["FocalLength"][1] = "tokens"
HasSpeed(rec) ==
    /\ HasNumber(rec, "FlightXSpeed") \/ HasNumber(rec, "SpeedX")
    /\ HasNumber(rec, "FlightYSpeed") \/ HasNumber(rec, "SpeedY")
    /\ HasNumber(rec, "FlightZSpeed") \/ HasNumber(rec, "SpeedZ")
HasKnownSensor(rec) ==
    "Model" \in DOMAIN rec /\ rec["Model"][2] \in {"m3e", "ZenmuseP1", "iXM-GS120", "FC3682"}

----------------------------------------------------------------------------
(* C5: a record that lacks only GimbalPitchDegree, met while no pitch is    *)
(* set (no override, none resolved earlier), does not end the run with an   *)
(* exception.                                                               *)
C5_MissingPitchDoesNotAbort ==
    ~(/\ pc = "raised"
      /\ ri \in DOMAIN exif_dict
      /\ pitch = None
      /\ OnlyPitchMissing(exif_dict[ri]))

----------------------------------------------------------------------------
(* C6: whatever fields the records lack, no image ends the run with an      *)
(* exception; a run that has returned has emitted one Feature per record of *)
(* every shoot and reported every shoot.                                    *)
C6_FieldsNeverAbort ==
    /\ ~(pc = "raised" /\ ri \in DOMAIN exif_dict)
    /\ pc = "done" =>
          /\ \A j \in DOMAIN folders_list :
                Cardinality(EmittedOf(folders_list[j])) = Records(folders_list[j])
          /\ Len(reported) = Len(folders_list)

----------------------------------------------------------------------------
(* C7: in every emitted Feature, a property whose source the image's own    *)
(* record does not give is 'NA'.                                            *)
C7_UnderivedIsNA ==
    \A i \in DOMAIN emitted :
        LET p == emitted[i].properties
            rec == RecordOf(p.FilePath)
        IN  /\ ~HasPosition(rec) => (p.UTMEasting = NA /\ p.UTMNorthing = NA)
            /\ ~(HasNumber(rec, "ExifImageWidth") /\ HasNumber(rec, "ExifImageHeight"))
                  => p.ImageDimensions = NA
            /\ ~HasLocalTime(rec) => p.DatetimeLocal = NA
            /\ (~HasUtcTime(rec) /\ ~(HasLocalTime(rec) /\ HasPosition(rec)))
                  => p.DatetimeUTC = NA
            /\ (~HasKnownSensor(rec) /\ UiSensDim(ui) = None) => p.SensorDimensions = NA
            /\ ~HasYaw(rec) => p.Yaw = NA
            /\ ~HasFocalLength(rec) => p.FocalLength = NA
            /\ ~HasSpeed(rec) => p.Speed = NA

----------------------------------------------------------------------------
(* C8: with no override typed in, the height, pitch and sensor dimensions   *)
(* derived from the first processed image are those of every Feature of the *)
(* run.                                                                     *)
C8_FirstValueSticks ==
    emitted # <<>> =>
        LET first == RecordOf(emitted[1].properties.FilePath)
        IN  /\ (ui.heightLine = Text("") /\ HasNumber(first, "RelativeAltitude")) =>
                  \A i \in DOMAIN emitted :
                      emitted[i].properties.Height = Num(first["RelativeAltitude"][2])
            /\ (ui.gimbalPitchLine = Text("") /\ HasNumber(first, "GimbalPitchDegree")) =>
                  \A i \in DOMAIN emitted :
                      emitted[i].properties.Pitch = Num(first["GimbalPitchDegree"][2])
            /\ (UiSensDim(ui) = None /\ HasKnownSensor(first)) =>
                  \A i \in DOMAIN emitted :
                      emitted[i].properties.SensorDimensions = emitted[1].properties.SensorDimensions

----------------------------------------------------------------------------
(* C9: a height or pitch typed into the dialog is the Height or Pitch of    *)
(* every Feature of the run.                                                *)
C9_OverrideWins ==
    \A i \in DOMAIN emitted :
        /\ ui.heightLine # Text("") => emitted[i].properties.Height = Num(ui.heightLine[2])
        /\ ui.gimbalPitchLine # Text("") => emitted[i].properties.Pitch = Num(ui.gimbalPitchLine[2])

----------------------------------------------------------------------------
\* No file of the input folder has an image extension
NoImageAnywhere ==
    \A d \in DOMAIN tree : \A i \in DOMAIN tree[d].files :
        LowerLastPart(tree[d].files[i].name) \notin img_extensions

(* C10: when no directory of the input folder holds a file with an image    *)
(* extension, the run does not return normally and the dialog does not      *)
(* announce that footprints were generated.                                 *)
C10_NoImageIsFatal ==
    NoImageAnywhere =>
        /\ pc # "done"
        /\ \A m \in DOMAIN messages : messages[m] # "Footprints generated"

----------------------------------------------------------------------------
(* C11: a shoot for which the extractor returns no record raises nothing    *)
(* and writes nothing: while it is the current shoot the run has not ended  *)
(* with an exception, and once it is passed the output folder holds no      *)
(* collection without Features.                                             *)
C11_EmptyShootSkipped ==
    (fi \in DOMAIN folders_list /\ Records(folders_list[fi]) = 0) =>
        /\ pc # "raised"
        /\ pc = "progress" => \A f \in DOMAIN fs : fs[f].features # <<>>

----------------------------------------------------------------------------
\* The directory directly holds a file with an image extension
HoldsImageFile(d) ==
    \E i \in DOMAIN tree[d].files :
        /\ Len(tree[d].files[i].name) >= 2
        /\ Lower(tree[d].files[i].name[Len(tree[d].files[i].name)]) \in img_extensions

\* folders_list has been built
Walked == pc \in {"folder", "image", "progress", "done"}

(* C12: once the walk is done, a directory of the input folder is in        *)
(* folders_list exactly when it directly holds a file whose extension,      *)
(* lower-cased, is an image extension (a subdirectory or a name without an  *)
(* extension does not count), and no directory is listed twice.             *)
C12_ShootsAreImageDirs ==
    Walked =>
        /\ \A d \in DOMAIN tree :
              (\E j \in DOMAIN folders_list : folders_list[j] = d) <=> HoldsImageFile(d)
        /\ \A j, k \in DOMAIN folders_list : folders_list[j] = folders_list[k] => j = k

----------------------------------------------------------------------------
\* Run has been clicked with both folders given and a pitch typed in
PitchTyped == pc # "idle" /\ ~FoldersMissing(ui) /\ ui.gimbalPitchLine # Text("")

\* footprints.generate_footprints has been called
Called == pitch # Unbound

\* The dialog has refused the run: message shown, exception raised, nothing written
Refused ==
    /\ ~Called
    /\ pc = "raised"
    /\ \E m \in DOMAIN messages : messages[m] = "Invalid parameter"
    /\ DOMAIN fs = {}
    /\ emitted = <<>>

(* C13 as the dialog has it: a pitch typed in is accepted exactly when it   *)
(* lies in [-90, 0), so -90 is accepted and 0 is rejected; any other value  *)
(* is refused before footprints.generate_footprints is called, and nothing  *)
(* is written.                                                              *)
C13_PitchFromNadirBelowHorizon ==
    PitchTyped =>
        /\ Called <=> (ui.gimbalPitchLine[2] >= -90 /\ ui.gimbalPitchLine[2] < 0)
        /\ ~Called => Refused

\* A run with pitch -90 typed in has returned, every Feature with Pitch -90
C13_Witness ==
    /\ pc = "done"
    /\ ui.gimbalPitchLine = NumText(-90)
    /\ emitted # <<>>
    /\ \A i \in DOMAIN emitted : emitted[i].properties.Pitch = Num(-90)

(* C13 as stated: a pitch typed in is accepted exactly when it lies in      *)
(* (-90, 0], so 0 is accepted and -90 is rejected; any other value is       *)
(* refused before footprints.generate_footprints is called.                 *)
C13_PitchAboveNadirToHorizon ==
    PitchTyped =>
        /\ Called <=> (ui.gimbalPitchLine[2] > -90 /\ ui.gimbalPitchLine[2] <= 0)
        /\ ~Called => Refused

----------------------------------------------------------------------------
(* C14: every file of the output folder, per-image or merged, declares the  *)
(* CRS epsg:4326, and every vertex of its polygons is (longitude, latitude). *)
C14_CrsDeclaredLonLat ==
    \A f \in DOMAIN fs :
        /\ fs[f].crs = "epsg:4326"
        /\ \A x \in DOMAIN fs[f].features :
              \A v \in DOMAIN fs[f].features[x].geometry :
                  /\ fs[f].features[x].geometry[v][1][1] = "lon"
                  /\ fs[f].features[x].geometry[v][2][1] = "lat"

----------------------------------------------------------------------------
\* Bottom-left, top-left, top-right, bottom-right: the bottom corners at the
\* front ground distance Kf, the top corners at the back ground distance Kb,
\* each as the pair of its coordinates a and b
FixedOrder(a, b) ==
    << <<<<a, "+Wfh", "Kf">>, <<b, "+Wfh", "Kf">>>>,
       <<<<a, "+Wbh", "Kb">>, <<b, "+Wbh", "Kb">>>>,
       <<<<a, "-Wbh", "Kb">>, <<b, "-Wbh", "Kb">>>>,
       <<<<a, "-Wfh", "Kf">>, <<b, "-Wfh", "Kf">>>> >>

(* C15: img_footprint_coords returns the corners bottom-left, top-left,     *)
(* top-right, bottom-right, bottom corners at the front ground distance and *)
(* top corners at the back one, as (lat, lon) pairs and, with return_utm,   *)
(* as (x, y) pairs in the same order; merge_geojsons writes the Features of *)
(* the listed files in the order of the list, each with its vertices in the *)
(* order of its file.                                                       *)
C15_FixedCornerOrder ==
    /\ (lib.fn = "img_footprint_coords" /\ lib.done) =>
          /\ lib.result.ok
          /\ lib.result.v = IF lib.args.return_utm THEN FixedOrder("x", "y")
                                                   ELSE FixedOrder("lat", "lon")
    /\ (lib.fn = "merge_geojsons" /\ lib.done) =>
          /\ Len(lib.result.v.features) = Len(lib.args.geojson_list)
          /\ \A i \in DOMAIN lib.args.geojson_list :
                lib.result.v.features[i] = lib.args.files[lib.args.geojson_list[i]].features[1]

\* The projected corners of an image have been returned
C15_Witness ==
    /\ lib.fn = "img_footprint_coords"
    /\ lib.done
    /\ lib.args.return_utm
    /\ lib.result.ok
    /\ lib.result.v[1] = <<<<"x", "+Wfh", "Kf">>, <<"y", "+Wfh", "Kf">>>>

----------------------------------------------------------------------------
\* A vertex list moved by (dx, dy), and a vertex list in reversed order
Translate(coords, dx, dy) == [i \in DOMAIN coords |-> <<coords[i][1] + dx, coords[i][2] + dy>>]
Reverse(coords) == [i \in DOMAIN coords |-> coords[Len(coords) + 1 - i]]

(* C16: the area polygon_area returns for a vertex list is the area it      *)
(* returns for the list moved by any (dx, dy) and for the list reversed.    *)
C16_AreaKeptByShiftAndReversal ==
    (lib.fn = "polygon_area" /\ lib.done) =>
        /\ \A dx \in -MaxShift..MaxShift : \A dy \in -MaxShift..MaxShift :
              polygon_area(Translate(lib.args, dx, dy)) = lib.result
        /\ polygon_area(Reverse(lib.args)) = lib.result

\* The area of the unit square, which is 1, has been returned
C16_Witness ==
    /\ lib.fn = "polygon_area"
    /\ lib.done
    /\ lib.args = <<<<0, 0>>, <<0, 1>>, <<1, 1>>, <<1, 0>>>>
    /\ lib.result = Ok(<<"half", 2>>)

----------------------------------------------------------------------------
(* C17: polygon_area given fewer than 3 vertices returns no area: it        *)
(* signals a failure.                                                       *)
C17_FewVerticesRejected ==
    (lib.fn = "polygon_area" /\ lib.done /\ Len(lib.args) < 3) => ~lib.result.ok

----------------------------------------------------------------------------
(* C18: calculate_gsd returns 'NA' exactly when the rounded GSD is <= 0 or  *)
(* > 9999, and the rounded GSD, within (0, 9999], otherwise; at pitch 0 it  *)
(* returns (the GSD there being 0 or far beyond 9999) and raises no         *)
(* division error, the focal length and the image width not being 0.        *)
C18_GsdOrSentinel ==
    (lib.fn = "calculate_gsd" /\ lib.done
        /\ lib.args.focal_length[2] * lib.args.img_dim[2] # 0) =>
        /\ lib.result.ok
        /\ IF lib.args.pitch = Num(0) THEN lib.result.v = NA
           ELSE LET gsd == GsdRounded(lib.args.height[2], lib.args.pitch[2],
                                      lib.args.focal_length[2], lib.args.sens_dim[2],
                                      lib.args.img_dim[2])
                IN  /\ lib.result.v = NA <=> (gsd <= 0 \/ gsd > 9999 * 1000)
                    /\ lib.result.v # NA =>
                          (lib.result.v = Num(gsd) /\ gsd > 0 /\ gsd <= 9999 * 1000)

\* calculate_gsd has returned for a camera at the horizon, 50 m up
C18_Witness ==
    /\ lib.fn = "calculate_gsd"
    /\ lib.done
    /\ lib.args.pitch = Num(0)
    /\ lib.args.height = Num(50)
    /\ lib.args.focal_length = Num(24)
    /\ lib.args.img_dim = List2(4000, 3000)
    /\ lib.result = Ok(NA)

----------------------------------------------------------------------------
\* The field the yaw of a record is to be read from
YawField(rec) ==
    IF "Model" \in DOMAIN rec /\ rec["Model"] = Str("FC3682")
    THEN "FlightYawDegree" ELSE "GimbalYawDegree"

(* C19: the yaw resolved for a record is the number in FlightYawDegree when *)
(* its Model is FC3682 and the number in GimbalYawDegree for every other    *)
(* record, one without Model included; it is 'NA' only when that field is   *)
(* missing or not a number.                                                 *)
C19_YawByModel ==
    /\ (pc \in {"image", "raised"} /\ ri \in DOMAIN exif_dict) =>
          ResolveYaw(exif_dict[ri]) =
              IF HasNumber(exif_dict[ri], YawField(exif_dict[ri]))
              THEN Num(exif_dict[ri][YawField(exif_dict[ri])][2]) ELSE NA
    /\ \A i \in DOMAIN emitted :
          LET rec == RecordOf(emitted[i].properties.FilePath)
          IN  emitted[i].properties.Yaw =
                  IF HasNumber(rec, YawField(rec)) THEN Num(rec[YawField(rec)][2]) ELSE NA

----------------------------------------------------------------------------
(* C20: the run deletes no file that was in the output folder when it       *)
(* started and no merged file it has written; with keep_only_merged false   *)
(* it deletes nothing, so every per-image file it has written is there.     *)
C20_CleanupFrame ==
    /\ \A f \in DOMAIN output_folder : f \in DOMAIN fs
    /\ keep_only_merged =>
          \A k \in DOMAIN reported : MergedPath(folders_list[k]) \in DOMAIN fs
    /\ (pc # "idle" /\ ~keep_only_merged) =>
          \A i \in DOMAIN emitted : emitted[i].artifact \in DOMAIN fs

----------------------------------------------------------------------------
(* C21: in a run with keep_only_merged over shoots that each have a record, *)
(* no two shoots have the same merged path; when the run has returned there *)
(* are as many merged files as shoots, and the merged file of a shoot holds *)
(* Features of that shoot only.                                             *)
C21_OneMergedFilePerShoot ==
    (keep_only_merged /\ \A j \in DOMAIN folders_list : Records(folders_list[j]) >= 1) =>
        /\ \A j, k \in DOMAIN folders_list :
              MergedPath(folders_list[j]) = MergedPath(folders_list[k]) => j = k
        /\ pc = "done" =>
              /\ Cardinality(MergedFiles) = Len(folders_list)
              /\ \A j \in DOMAIN folders_list :
                    \A x \in DOMAIN fs[MergedPath(folders_list[j])].features :
                        ShootOf(fs[MergedPath(folders_list[j])].features[x].properties.FilePath)
                            = folders_list[j]

====
